---- MODULE Spec2Model ----
(***************************************************************************)
(* Model of neon_phal_network_manager.NetworkManager: the blocking         *)
(* get_state bridge and its DBus worker thread.                            *)
(*                                                                         *)
(* Every access to the state shared between the calling threads and the    *)
(* worker threads (_state, _state_requested, _state_ready, _dbus_thread)   *)
(* is one step.  Variables whose names start with "h" are history          *)
(* variables: they record what happened and are read by no action guard.   *)
(* The history of one invocation, hTrk, is recorded; under Init hTrk       *)
(* ranges over all invocations, so a property of the recorded invocation   *)
(* is a property of every invocation.  Specifications whose properties     *)
(* read positions and flags only record no invocation (hTrk = 0).          *)
(***************************************************************************)
EXTENDS Integers, Sequences, FiniteSets

(* ---------------------------------------------------------------- bounds *)

\* get_state invocations (direct or through is_*_connected) in one behaviour
MaxCalls == 3

\* invocations in one behaviour when two threads call concurrently
MaxConcCalls == 2

\* integers a reply body may carry are 0..MaxCode; FULL + 1 is out of range
MaxCode == 5

(* ------------------------------------------------------ ConnectivityState *)

UNKNOWN == 0
NONE == 1
PORTAL == 2
LIMITED == 3
FULL == 4

ConnectivityState == {UNKNOWN, NONE, PORTAL, LIMITED, FULL}

\* value of self._dbus_thread when no thread is recorded
None == 0

\* threads ever created by a bridge: at most one per invocation
Threads == 1..MaxCalls

\* calling threads; thread 2 exists only under InitConc
Callers == {1, 2}

\* invocation identifiers
Invocations == 1..MaxCalls

\* "no value yet" for history variables holding a ConnectivityState
NoValue == UNKNOWN - 1

(* ----------------------------------------------------------- DBus replies *)

METHOD_RETURN == "METHOD_RETURN"
ERROR == "ERROR"

\* replies bus.call can deliver: a method return with a one-integer body, a
\* method return with an empty body, an error message
Replies ==
    {[message_type |-> METHOD_RETURN, body |-> <<v>>] : v \in 0..MaxCode}
        \cup {[message_type |-> METHOD_RETURN, body |-> <<>>],
              [message_type |-> ERROR, body |-> <<>>]}

\* mutant: any integer is taken for a state (no ValueError)
DecodableAnyInteger(body) == Len(body) >= 1

\* ConnectivityState(reply.body[0]) returns a member (no IndexError, no
\* ValueError)
Decodable(body) == Len(body) >= 1 /\ body[1] \in ConnectivityState

\* ConnectivityState(reply.body[0]) for a decodable body
Decode(body) == body[1]

\* how the processing of a reply ends: "ok" (decoded and stored), "error"
\* (error reply, slot untouched), "malformed" (IndexError / ValueError)
Outcome(r) ==
    IF r.message_type = ERROR THEN "error"
    ELSE IF Decodable(r.body) THEN "ok" ELSE "malformed"

\* the exception ConnectivityState(reply.body[0]) raises on an undecodable
\* body: no first field, or an integer that is no member
DecodeError(body) == IF Len(body) = 0 THEN "IndexError" ELSE "ValueError"

(* ------------------------------------------------------- classifications *)

\* mutant: NONE counts as connected
IsNetworkConnectedFromNone(s) == s >= NONE

IsNetworkConnected(s) == s \in {PORTAL, LIMITED, FULL}

\* mutant: LIMITED counts as internet
IsInternetConnectedFromLimited(s) == s >= LIMITED

IsInternetConnected(s) == s = FULL

Ops == {"get_state", "is_network_connected", "is_internet_connected"}

\* what the public method op returns when its get_state yields s
Result(op, s) ==
    CASE op = "get_state" -> s
      [] op = "is_network_connected" -> IsNetworkConnected(s)
      [] op = "is_internet_connected" -> IsInternetConnected(s)

(* ------------------------------------------------------------------ state *)

VARIABLES
    state,            \* self._state
    state_requested,  \* self._state_requested (threading.Event flag)
    state_ready,      \* self._state_ready (threading.Event flag)
    dbus_thread,      \* self._dbus_thread: None or a thread
    bus,              \* TRUE iff a bus was passed to the constructor
    api,              \* the public methods the calling threads use
    wpc,              \* per thread: position in _dbus_thread_proc_async
    cpc,              \* per caller: position in get_state
    cop,              \* per caller: the public method being executed
    cinv,             \* per caller: identifier of its invocation
    cret,             \* per caller: what its last completed call returned,
                      \* and for invocation hTrk how the handshake stood
    hCalls,           \* invocations started so far
    hFailed,          \* some worker thread has raised
    hIssued,          \* CheckConnectivity calls sent so far, counted in
                      \* behaviours that record no single invocation
    hReset,           \* the slot was last written by line 130
    hOverlap,         \* two invocations have been in progress at once
    hTrk,             \* the invocation whose history is recorded
    hTrkAt,           \* facts of the moment invocation hTrk started
    hTrkThread,       \* the thread invocation hTrk started, or None
    hTrkFail,         \* why that thread raised, or "none"
    hTrkActs,         \* what that thread has done: "call", "ready"
    hTrkReq,          \* the request flag was last set by invocation hTrk
    hTrkCall,         \* per thread: its call in flight is for invocation hTrk
    hTrkOut,          \* outcome of the remote call made for invocation hTrk
    hTrkVal,          \* the integer its success reply carried, or NoValue
    hTrkEnded,        \* how the wait of invocation hTrk ended
    hTrkRet           \* the state get_state returned to invocation hTrk

vars == <<state, state_requested, state_ready, dbus_thread, bus, api, wpc, cpc,
          cop, cinv, cret, hCalls, hFailed, hIssued, hReset, hOverlap, hTrk,
          hTrkAt,
          hTrkThread, hTrkFail, hTrkActs, hTrkReq, hTrkCall, hTrkOut,
          hTrkVal, hTrkEnded, hTrkRet>>

shared == <<state, state_requested, state_ready, dbus_thread>>
config == <<bus, api, hTrk>>
callerVars == <<cpc, cop, cinv, cret, hCalls, hOverlap>>
trkCaller == <<hTrkAt, hTrkThread, hTrkReq, hTrkEnded, hTrkRet>>
trkWorker == <<hFailed, hIssued, hReset, hTrkFail, hTrkActs, hTrkCall,
               hTrkOut, hTrkVal>>

\* caller c is inside get_state
InCall(c) == cpc[c] \in {"ensure", "create", "start", "clear_ready",
                         "set_requested", "wait", "read"}

\* a started thread that has not yet returned from _dbus_thread_proc_async
Live(w) == wpc[w] \notin {"unborn", "new", "dead"}

\* a thread between observing a request (line 129) and announcing its
\* result (line 145)
Busy(w) == wpc[w] \in {"reset", "await", "clear", "set"}

\* no request pending and no thread processing one
WorkerIdle == ~state_requested /\ \A w \in Threads : ~Busy(w)

\* a thread has ended (line 150 executed) and no thread is left
WorkerGone ==
    /\ \E w \in Threads : wpc[w] = "dead"
    /\ \A w \in Threads : wpc[w] \in {"unborn", "dead"}

\* invocations a behaviour may hold
CallLimit == IF cpc[2] = "absent" THEN MaxCalls ELSE MaxConcCalls

\* the record of a call that has not returned: op, got and value are set
\* at line 91; for invocation hTrk, flight tells that a remote call was in
\* flight when it started, read where its own remote call stood when it
\* read the slot, and reset that the slot it read was written by line 130
NoReturn ==
    [op |-> "none", got |-> NoValue, value |-> NoValue, flight |-> FALSE,
     read |-> "none", reset |-> FALSE]

NotStarted == [idle |-> FALSE, gone |-> FALSE, prior |-> FALSE]

\* where the remote call made for invocation hTrk stands: not yet sent
\* ("untaken"), sent and unanswered ("flying"), ended by an exception
\* ("crashed"), or answered and processed ("done")
TrkPhase ==
    IF \E w \in Threads : hTrkCall[w] /\ wpc[w] = "await" THEN "flying"
    ELSE IF hTrkOut \in {"raised", "malformed"} THEN "crashed"
    ELSE IF hTrkOut \in {"ok", "error"} THEN "done"
    ELSE "untaken"

(* ---------------------------------------------------------- construction *)

\* NetworkManager.__init__ (lines 58-68) for a bridge used by the calling
\* threads callers through the methods ops, with or without a given bus;
\* the history of one invocation among tracked is recorded
InitWith(callers, ops, buses, tracked) ==
    /\ state = UNKNOWN
    /\ state_requested = FALSE
    /\ state_ready = FALSE
    /\ dbus_thread = None
    /\ bus \in buses
    /\ api = ops
    /\ wpc = [w \in Threads |-> "unborn"]
    /\ cpc = [c \in Callers |-> IF c \in callers THEN "idle" ELSE "absent"]
    /\ cop = [c \in Callers |-> "none"]
    /\ cinv = [c \in Callers |-> 0]
    /\ cret = [c \in Callers |-> NoReturn]
    /\ hCalls = 0
    /\ hFailed = FALSE
    /\ hIssued = 0
    /\ hReset = FALSE
    /\ hOverlap = FALSE
    /\ hTrk \in tracked
    /\ hTrkAt = NotStarted
    /\ hTrkThread = None
    /\ hTrkFail = "none"
    /\ hTrkActs = {}
    /\ hTrkReq = FALSE
    /\ hTrkCall = [w \in Threads |-> FALSE]
    /\ hTrkOut = "none"
    /\ hTrkVal = NoValue
    /\ hTrkEnded = "none"
    /\ hTrkRet = NoValue

\* NetworkManagerEvents (line 157, 162): NetworkManager() with no bus, and
\* one thread calling get_state
Init == InitWith({1}, {"get_state"}, {FALSE}, Invocations)

\* Init with the history of the first invocation recorded
InitFirst == InitWith({1}, {"get_state"}, {FALSE}, {1})

\* one thread calling any of the three public methods
InitApi == InitWith({1}, Ops, {FALSE}, {1})

\* Init with no invocation's history recorded (identifiers start at 1)
InitPlain == InitWith({1}, {"get_state"}, {FALSE}, {0})

\* two threads calling get_state on one bridge, no invocation's history
\* recorded
InitConc == InitWith({1, 2}, {"get_state"}, {FALSE}, {0})

(* ---------------------------------------------------------------- bridge *)

\* a caller enters get_state, directly or through is_*_connected
Call(c, op) ==
    /\ cpc[c] \in {"idle", "returned", "AttributeError", "RuntimeError"}
    /\ op \in api
    /\ hCalls < CallLimit
    /\ cpc' = [cpc EXCEPT ![c] = "ensure"]
    /\ cop' = [cop EXCEPT ![c] = op]
    /\ cinv' = [cinv EXCEPT ![c] = hCalls + 1]
    /\ cret' = [cret EXCEPT ![c] =
                   [NoReturn EXCEPT !.flight =
                       /\ hCalls + 1 = hTrk
                       /\ \E w \in Threads : wpc[w] = "await"]]
    /\ hCalls' = hCalls + 1
    /\ hOverlap' = (hOverlap \/ \E d \in Callers \ {c} : InCall(d))
    /\ hTrkAt' = IF hCalls + 1 = hTrk
                 THEN [idle |-> WorkerIdle, gone |-> WorkerGone,
                       prior |-> hTrkAt.prior]
                 ELSE hTrkAt
    /\ UNCHANGED <<shared, config, wpc, trkWorker, hTrkThread, hTrkReq,
                   hTrkEnded, hTrkRet>>

\* _ensure_thread_started, line 95: if self._dbus_thread is None
EnsureCheck(c) ==
    /\ cpc[c] = "ensure"
    /\ cpc' = [cpc EXCEPT ![c] =
                  IF dbus_thread = None THEN "create" ELSE "clear_ready"]
    /\ UNCHANGED <<shared, config, wpc, cop, cinv, cret, hCalls, hOverlap,
                   trkCaller, trkWorker>>

\* the thread object line 96 creates
NewThread == Cardinality({w \in Threads : wpc[w] # "unborn"}) + 1

\* _ensure_thread_started, lines 96-99: self._dbus_thread = Thread(...)
EnsureCreate(c) ==
    /\ cpc[c] = "create"
    /\ dbus_thread' = NewThread
    /\ wpc' = [wpc EXCEPT ![NewThread] = "new"]
    /\ cpc' = [cpc EXCEPT ![c] = "start"]
    /\ UNCHANGED <<state, state_requested, state_ready, config, cop, cinv,
                   cret, hCalls, hOverlap, trkCaller, trkWorker>>

\* _ensure_thread_started, line 101: self._dbus_thread.start().  The field
\* is read again: None has no start (AttributeError), and a thread that was
\* already started cannot be started again (RuntimeError).
EnsureStart(c) ==
    /\ cpc[c] = "start"
    /\ IF dbus_thread # None /\ wpc[dbus_thread] = "new"
       THEN /\ wpc' = [wpc EXCEPT ![dbus_thread] = "connect"]
            /\ cpc' = [cpc EXCEPT ![c] = "clear_ready"]
            /\ hTrkThread' = IF cinv[c] = hTrk THEN dbus_thread ELSE hTrkThread
       ELSE /\ wpc' = wpc
            /\ cpc' = [cpc EXCEPT ![c] =
                   IF dbus_thread = None THEN "AttributeError"
                   ELSE "RuntimeError"]
            /\ hTrkThread' = hTrkThread
    /\ UNCHANGED <<shared, config, cop, cinv, cret, hCalls, hOverlap, hTrkAt,
                   hTrkReq, hTrkEnded, hTrkRet, trkWorker>>

\* mutant: get_state without line 87
ClearReadyOmitted(c) ==
    /\ cpc[c] = "clear_ready"
    /\ cpc' = [cpc EXCEPT ![c] = "set_requested"]
    /\ UNCHANGED <<shared, config, wpc, cop, cinv, cret, hCalls, hOverlap,
                   trkCaller, trkWorker>>

\* mutant: get_state also resets the slot at line 87
ClearReadyResetsSlot(c) ==
    /\ cpc[c] = "clear_ready"
    /\ state_ready' = FALSE
    /\ state' = UNKNOWN
    /\ cpc' = [cpc EXCEPT ![c] = "set_requested"]
    /\ UNCHANGED <<state_requested, dbus_thread, config, wpc, cop, cinv,
                   cret, hCalls, hOverlap, trkCaller, trkWorker>>

\* get_state, line 87: self._state_ready.clear()
ClearReady(c) ==
    /\ cpc[c] = "clear_ready"
    /\ state_ready' = FALSE
    /\ cpc' = [cpc EXCEPT ![c] = "set_requested"]
    /\ UNCHANGED <<state, state_requested, dbus_thread, config, wpc, cop, cinv,
                   cret, hCalls, hOverlap, trkCaller, trkWorker>>

\* get_state, line 88: self._state_requested.set()
SetRequested(c) ==
    /\ cpc[c] = "set_requested"
    /\ state_requested' = TRUE
    /\ hTrkReq' = (cinv[c] = hTrk)
    /\ cpc' = [cpc EXCEPT ![c] = "wait"]
    /\ UNCHANGED <<state, state_ready, dbus_thread, config, wpc, cop, cinv,
                   cret, hCalls, hOverlap, hTrkAt, hTrkThread, hTrkEnded, hTrkRet,
                   trkWorker>>

\* the wait of line 89 ends, by the flag or by the timeout
EndWait(c, how) ==
    /\ cpc' = [cpc EXCEPT ![c] = "read"]
    /\ hTrkEnded' = IF cinv[c] = hTrk THEN how ELSE hTrkEnded
    /\ UNCHANGED <<shared, config, wpc, cop, cinv, cret, hCalls, hOverlap, hTrkAt,
                   hTrkThread, hTrkReq, hTrkRet, trkWorker>>

\* get_state, line 89: self._state_ready.wait(timeout) finds the flag set
WaitReady(c) ==
    /\ cpc[c] = "wait"
    /\ state_ready
    /\ EndWait(c, "ready")

\* mutant: line 89 waits without a timeout
WaitForever(c) ==
    /\ cpc[c] = "wait"
    /\ FALSE
    /\ UNCHANGED vars

\* mutant: a wait that times out withdraws the request
WaitTimeoutCancels(c) ==
    /\ cpc[c] = "wait"
    /\ ~state_ready
    /\ state_requested' = FALSE
    /\ hTrkReq' = FALSE
    /\ cpc' = [cpc EXCEPT ![c] = "read"]
    /\ hTrkEnded' = IF cinv[c] = hTrk THEN "timeout" ELSE hTrkEnded
    /\ UNCHANGED <<state, state_ready, dbus_thread, config, wpc, cop, cinv,
                   cret, hCalls, hOverlap, hTrkAt, hTrkThread, hTrkRet,
                   trkWorker>>

\* get_state, line 89: the timeout expires with the flag still clear
WaitTimeout(c) ==
    /\ cpc[c] = "wait"
    /\ ~state_ready
    /\ EndWait(c, "timeout")

\* get_state, line 91: return self._state, and the classification the
\* public method applies to it (lines 73-77, 81)
ReadState(c) ==
    /\ cpc[c] = "read"
    /\ cret' = [cret EXCEPT ![c] =
                   [op |-> cop[c], got |-> state,
                    value |-> Result(cop[c], state),
                    flight |-> cret[c].flight,
                    read |-> IF cinv[c] = hTrk THEN TrkPhase ELSE "none",
                    reset |-> cinv[c] = hTrk /\ hReset]]
    /\ cop' = [cop EXCEPT ![c] = "none"]
    /\ cpc' = [cpc EXCEPT ![c] = "returned"]
    /\ hTrkRet' = IF cinv[c] = hTrk THEN state ELSE hTrkRet
    /\ hTrkAt' = IF cinv[c] < hTrk /\ state # UNKNOWN
                 THEN [hTrkAt EXCEPT !.prior = TRUE]
                 ELSE hTrkAt
    /\ UNCHANGED <<shared, config, wpc, cinv, hCalls, hOverlap, hTrkThread, hTrkReq,
                   hTrkEnded, trkWorker>>

(* ---------------------------------------------------------------- worker *)

\* the thread leaves the try block through an exception (lines 146-147)
Raise(w, why) ==
    /\ wpc' = [wpc EXCEPT ![w] = "exit"]
    /\ hFailed' = TRUE
    /\ hTrkFail' = IF w = hTrkThread THEN why ELSE hTrkFail

\* _dbus_thread_proc_async, lines 113-125: the constructor's bus is used, or
\* a bus is made and await bus.connect() returns (ok) or raises
Connect(w, ok) ==
    /\ wpc[w] = "connect"
    /\ IF bus \/ ok
       THEN /\ wpc' = [wpc EXCEPT ![w] = "wait"]
            /\ UNCHANGED <<hFailed, hTrkFail>>
       ELSE Raise(w, "connect")
    /\ UNCHANGED <<shared, config, callerVars, trkCaller, hIssued, hReset,
                   hTrkActs, hTrkCall, hTrkOut, hTrkVal>>

\* _dbus_thread_proc_async, line 129: self._state_requested.wait() returns
WaitRequested(w) ==
    /\ wpc[w] = "wait"
    /\ state_requested
    /\ wpc' = [wpc EXCEPT ![w] = "reset"]
    /\ hTrkCall' = [hTrkCall EXCEPT ![w] = hTrkReq]
    /\ UNCHANGED <<shared, config, callerVars, trkCaller, hFailed, hIssued,
                   hReset, hTrkFail, hTrkActs, hTrkOut, hTrkVal>>

\* mutant: the call is sent without line 130
CallWithoutReset(w) ==
    /\ wpc[w] = "reset"
    /\ wpc' = [wpc EXCEPT ![w] = "await"]
    /\ hIssued' = IF hTrk = 0 THEN hIssued + 1 ELSE hIssued
    /\ hTrkActs' = IF w = hTrkThread THEN hTrkActs \cup {"call"} ELSE hTrkActs
    /\ UNCHANGED <<shared, config, callerVars, trkCaller, hFailed, hReset,
                   hTrkFail, hTrkCall, hTrkOut, hTrkVal>>

\* _dbus_thread_proc_async, lines 130-138: reset the slot, send the call
ResetAndCall(w) ==
    /\ wpc[w] = "reset"
    /\ state' = UNKNOWN
    /\ wpc' = [wpc EXCEPT ![w] = "await"]
    /\ hIssued' = IF hTrk = 0 THEN hIssued + 1 ELSE hIssued
    /\ hReset' = TRUE
    /\ hTrkActs' = IF w = hTrkThread THEN hTrkActs \cup {"call"} ELSE hTrkActs
    /\ UNCHANGED <<state_requested, state_ready, dbus_thread, config,
                   callerVars, trkCaller, hFailed, hTrkFail, hTrkCall,
                   hTrkOut, hTrkVal>>

\* the slot after lines 140-141 have processed reply r without raising
Stored(r, old) ==
    IF r.message_type # ERROR THEN Decode(r.body) ELSE old

\* the integer recorded for a reply: its first field when the reply is a
\* success carrying a valid state
Recorded(r) == IF Outcome(r) = "ok" THEN r.body[1] ELSE NoValue

\* _dbus_thread_proc_async, lines 132, 140-141: the reply arrives and is
\* decoded into the slot; an undecodable body raises
Reply(w, r) ==
    /\ wpc[w] = "await"
    /\ IF Outcome(r) = "malformed"
       THEN /\ Raise(w, DecodeError(r.body))
            /\ state' = state
            /\ hReset' = hReset
       ELSE /\ wpc' = [wpc EXCEPT ![w] = "clear"]
            /\ UNCHANGED <<hFailed, hTrkFail>>
            /\ state' = Stored(r, state)
            /\ hReset' = FALSE
    /\ hTrkOut' = IF hTrkCall[w] THEN Outcome(r) ELSE hTrkOut
    /\ hTrkVal' = IF hTrkCall[w] THEN Recorded(r) ELSE hTrkVal
    /\ hTrkCall' = [hTrkCall EXCEPT ![w] = FALSE]
    /\ UNCHANGED <<state_requested, state_ready, dbus_thread, config,
                   callerVars, trkCaller, hIssued, hTrkActs>>

\* _dbus_thread_proc_async, line 132: await bus.call(...) raises
CallRaises(w) ==
    /\ wpc[w] = "await"
    /\ Raise(w, "call")
    /\ hTrkOut' = IF hTrkCall[w] THEN "raised" ELSE hTrkOut
    /\ hTrkVal' = IF hTrkCall[w] THEN NoValue ELSE hTrkVal
    /\ hTrkCall' = [hTrkCall EXCEPT ![w] = FALSE]
    /\ UNCHANGED <<shared, config, callerVars, trkCaller, hIssued, hReset,
                   hTrkActs>>

\* _dbus_thread_proc_async, line 144: self._state_requested.clear()
ClearRequested(w) ==
    /\ wpc[w] = "clear"
    /\ state_requested' = FALSE
    /\ hTrkReq' = FALSE
    /\ wpc' = [wpc EXCEPT ![w] = "set"]
    /\ UNCHANGED <<state, state_ready, dbus_thread, config, callerVars, hTrkAt,
                   hTrkThread, hTrkEnded, hTrkRet, trkWorker>>

\* mutant: the worker loops without line 145
SetReadyOmitted(w) ==
    /\ wpc[w] = "set"
    /\ wpc' = [wpc EXCEPT ![w] = "wait"]
    /\ UNCHANGED <<shared, config, callerVars, trkCaller, trkWorker>>

\* _dbus_thread_proc_async, line 145: self._state_ready.set()
SetReady(w) ==
    /\ wpc[w] = "set"
    /\ state_ready' = TRUE
    /\ wpc' = [wpc EXCEPT ![w] = "wait"]
    /\ hTrkActs' = IF w = hTrkThread THEN hTrkActs \cup {"ready"} ELSE hTrkActs
    /\ UNCHANGED <<state, state_requested, dbus_thread, config, callerVars,
                   trkCaller, hFailed, hIssued, hReset, hTrkFail, hTrkCall,
                   hTrkOut, hTrkVal>>

\* mutant: the thread ends without line 150
ExitKeepsThread(w) ==
    /\ wpc[w] = "exit"
    /\ wpc' = [wpc EXCEPT ![w] = "dead"]
    /\ UNCHANGED <<shared, config, callerVars, trkCaller, trkWorker>>

\* _dbus_thread_proc_async, line 150: self._dbus_thread = None, and the
\* thread ends
Exit(w) ==
    /\ wpc[w] = "exit"
    /\ dbus_thread' = None
    /\ wpc' = [wpc EXCEPT ![w] = "dead"]
    /\ UNCHANGED <<state, state_requested, state_ready, config, callerVars,
                   trkCaller, trkWorker>>

(* --------------------------------------------------------- specification *)

\* a step of calling thread c inside get_state
CallerStep(c) ==
    \/ EnsureCheck(c)
    \/ EnsureCreate(c)
    \/ EnsureStart(c)
    \/ ClearReady(c)
    \/ SetRequested(c)
    \/ WaitReady(c)
    \/ WaitTimeout(c)
    \/ ReadState(c)

\* a step of worker thread w
WorkerStep(w) ==
    \/ (\E ok \in BOOLEAN : Connect(w, ok))
    \/ WaitRequested(w)
    \/ ResetAndCall(w)
    \/ (\E r \in Replies : Reply(w, r))
    \/ CallRaises(w)
    \/ ClearRequested(w)
    \/ SetReady(w)
    \/ Exit(w)

Next ==
    \/ \E c \in Callers, op \in Ops : Call(c, op)
    \/ \E c \in Callers : CallerStep(c)
    \/ \E w \in Threads : WorkerStep(w)

\* one thread calling get_state on a bridge built without a bus
Spec == Init /\ [][Next]_vars

\* Spec with no invocation's history recorded
PlainSpec == InitPlain /\ [][Next]_vars

\* one thread calling the three public methods
SpecApi == InitApi /\ [][Next]_vars

\* two threads calling get_state concurrently
SpecConc == InitConc /\ [][Next]_vars

\* one thread calling get_state, scheduled and with its timer running: a
\* step of get_state that stays possible is eventually taken.  Nothing is
\* assumed of the worker threads, the bus or NetworkManager.
FairSpec ==
    /\ InitFirst
    /\ [][Next]_vars
    /\ \A c \in Callers : WF_vars(CallerStep(c))

\* one thread calling get_state with every worker thread scheduled, its
\* bus answering every call (by a reply or an exception), and a waiting
\* caller woken when result ready is set.  Nothing is assumed of the
\* timeout of line 89: it may expire or never expire.
LiveWorkerSpec ==
    /\ InitPlain
    /\ [][Next]_vars
    /\ \A w \in Threads : WF_vars(WorkerStep(w))
    /\ \A c \in Callers : WF_vars(WaitReady(c))

(* ------------------------------------------------------------------------ *)
(* Properties                                                               *)
(* ------------------------------------------------------------------------ *)

\* invocation hTrk has returned from get_state
TrkReturned == hTrkRet # NoValue

\* C1: a get_state call that starts while the worker is idle, whose remote
\* call returns a success reply carrying an integer v in 0..4, and whose
\* wait is ended by result ready, returns the ConnectivityState with value v.
C1_ValidReplyReturned ==
    (/\ hTrkAt.idle
     /\ hTrkOut = "ok"
     /\ hTrkVal \in 0..4
     /\ hTrkEnded = "ready"
     /\ TrkReturned) => hTrkRet = hTrkVal

\* C1 happens: a later call of a bridge, started idle, returned PORTAL for
\* a reply carrying 2
C1_Witness ==
    /\ hTrk = 2
    /\ hTrkAt.idle
    /\ hTrkOut = "ok"
    /\ hTrkVal = 2
    /\ hTrkEnded = "ready"
    /\ hTrkRet = PORTAL

\* C2: whatever was cached before, a get_state call whose remote call
\* yields an error reply or a malformed payload returns UNKNOWN.
C2_BadReplyUnknown ==
    (hTrkOut \in {"error", "malformed"} /\ TrkReturned) => hTrkRet = UNKNOWN

\* C3: every get_state call eventually returns, whatever the worker does;
\* a first call that returns before any reply has arrived returns UNKNOWN.
C3_GetStateReturns ==
    /\ \A c \in Callers : InCall(c) ~> cpc[c] = "returned"
    /\ [](\A c \in Callers :
            (cpc[c] = "returned" /\ cinv[c] = 1 /\ hTrk = 1
             /\ hTrkOut = "none") => cret[c].got = UNKNOWN)

\* C3 happens: the first call has returned UNKNOWN while the worker is
\* still blocked on its remote call
C3_Witness ==
    /\ cpc[1] = "returned"
    /\ cinv[1] = 1
    /\ wpc[1] = "await"
    /\ cret[1].got = UNKNOWN

\* invocation hTrk has left _ensure_thread_started normally
TrkPastEnsure ==
    \E c \in Callers :
        /\ cinv[c] = hTrk
        /\ cpc[c] \in {"clear_ready", "set_requested", "wait", "read",
                       "returned"}

\* C4: a get_state call that begins after a worker has ended and marked
\* itself not running has started a new worker thread once it is past
\* _ensure_thread_started.
C4_RestartAfterFailure ==
    (hTrkAt.gone /\ TrkPastEnsure)
        => (hTrkThread # None /\ wpc[hTrkThread] \notin {"unborn", "new"})

\* C4 happens: a call that began with the worker gone was served by the
\* new worker and returned the state its reply carried
C4_Witness ==
    /\ hTrkAt.gone
    /\ hTrkThread # None
    /\ hTrkOut = "ok"
    /\ hTrkEnded = "ready"
    /\ hTrkRet = FULL
    /\ hTrkVal = 4

\* C5: a worker that fails to connect has issued no remote call and has not
\* set result ready; once ended it is no longer the recorded thread; the
\* call that started it ends by timeout and returns UNKNOWN.
C5_ConnectFailure ==
    hTrkFail = "connect" =>
        /\ hTrkActs = {}
        /\ wpc[hTrkThread] \in {"exit", "dead"}
        /\ wpc[hTrkThread] = "dead" => dbus_thread # hTrkThread
        /\ hTrkEnded \in {"none", "timeout"}
        /\ hTrkRet \in {NoValue, UNKNOWN}

\* C5 happens: an earlier call had returned a non-UNKNOWN state, and the
\* call whose worker failed to connect timed out and returned UNKNOWN
C5_Witness ==
    /\ hTrkFail = "connect"
    /\ hTrkAt.prior
    /\ wpc[hTrkThread] = "dead"
    /\ dbus_thread = None
    /\ hTrkEnded = "timeout"
    /\ hTrkRet = UNKNOWN

\* C6: a worker's failure never makes a get_state call end with an error:
\* no call ends with the AttributeError that line 101 raises when a failed
\* worker's line 150 has cleared the thread field, and every call that
\* returned returned a ConnectivityState.
C6_WorkerFailureConfined ==
    \A c \in Callers :
        /\ cpc[c] # "AttributeError"
        /\ cpc[c] = "returned" => cret[c].got \in ConnectivityState

\* C7: the slot always holds one of the five states, so does every value
\* get_state returned, and a worker that raised on an undecodable reply
\* left the slot at UNKNOWN.
C7_FiveStates ==
    /\ state \in ConnectivityState
    /\ \A c \in Callers : cpc[c] = "returned" => cret[c].got \in 0..4
    /\ (hTrkFail = "ValueError" /\ wpc[hTrkThread] = "exit")
            => state = UNKNOWN

\* C7 happens: a reply carried an integer outside 0..4 and the slot is
\* UNKNOWN
C7_Witness ==
    /\ hTrkFail = "ValueError"
    /\ wpc[hTrkThread] = "exit"
    /\ hTrkAt.prior
    /\ state = UNKNOWN

\* the threads that are live
LiveThreads == {w \in Threads : Live(w)}

\* C8: at every moment at most one worker thread is live (so at most one
\* remote call is in flight), for any number of concurrent callers.
C8_AtMostOneLiveWorker ==
    /\ Cardinality(LiveThreads) <= 1
    /\ Cardinality({w \in Threads : wpc[w] = "await"}) <= 1

\* C9: is_internet_connected returns true when its get_state yields FULL
\* and false when it yields UNKNOWN, NONE, PORTAL or LIMITED.
C9_InternetIffFull ==
    \A c \in Callers :
        cret[c].op = "is_internet_connected" =>
            /\ cret[c].got = 4 => cret[c].value = TRUE
            /\ cret[c].got \in {0, 1, 2, 3} => cret[c].value = FALSE
            /\ cret[c].got \in 0..4

\* C9 happens: is_internet_connected returned true on FULL
C9_Witness ==
    /\ cret[1].op = "is_internet_connected"
    /\ cret[1].got = FULL
    /\ cret[1].value = TRUE

\* C10: is_network_connected returns true when its get_state yields
\* PORTAL, LIMITED or FULL and false for UNKNOWN and NONE, which is the
\* ordering test state > NONE.
C10_NetworkIffAboveNone ==
    \A c \in Callers :
        cret[c].op = "is_network_connected" =>
            /\ cret[c].got \in {2, 3, 4} => cret[c].value = TRUE
            /\ cret[c].got \in {0, 1} => cret[c].value = FALSE
            /\ cret[c].value = (cret[c].got > NONE)
            /\ cret[c].got \in 0..4

\* C10 happens: is_network_connected returned true on PORTAL
C10_Witness ==
    /\ cret[1].op = "is_network_connected"
    /\ cret[1].got = PORTAL
    /\ cret[1].value = TRUE

\* thread w receives the outcome of its remote call in this step, the call
\* having been made for invocation hTrk
TrkOutcomeStep(w) == wpc[w] = "await" /\ wpc'[w] # "await" /\ hTrkCall[w]

\* C11 as stated: a remote call that raises, or whose reply is an error or
\* malformed, leaves the slot at UNKNOWN and its worker in the loop, on its
\* way to clearing request pending and setting result ready.
C11_FailureKeepsWorker ==
    [][\A w \in Threads :
          (TrkOutcomeStep(w) /\ hTrkOut' \in {"raised", "error", "malformed"})
              => (state' = UNKNOWN /\ wpc'[w] = "clear")]_vars

\* C11 amended: an error reply leaves the slot at UNKNOWN and its worker in
\* the loop, still the recorded thread, on its way to clearing request
\* pending and setting result ready; a call that raises or a malformed reply
\* leaves the slot at UNKNOWN and ends the worker, with request pending
\* still set and result ready untouched.
C11_OnlyErrorReplyKeepsWorker ==
    /\ [][\A w \in Threads :
            /\ (TrkOutcomeStep(w) /\ hTrkOut' = "error")
                  => /\ state' = UNKNOWN
                     /\ wpc'[w] = "clear"
                     /\ dbus_thread' = w
            /\ (TrkOutcomeStep(w) /\ hTrkOut' \in {"raised", "malformed"})
                  => /\ state' = UNKNOWN
                     /\ wpc'[w] = "exit"
                     /\ state_requested' /\ state_requested
                     /\ state_ready' = state_ready]_vars
    /\ [](\A w \in Threads : wpc[w] \in {"clear", "set"} => dbus_thread = w)

\* C11 happens: the first call got an error reply, and the same worker went
\* on to serve the second call, which returned FULL
C11_Witness ==
    /\ hTrk = 1
    /\ hTrkOut = "error"
    /\ hTrkRet = UNKNOWN
    /\ cinv[1] = 2
    /\ cpc[1] = "returned"
    /\ cret[1].got = FULL
    /\ dbus_thread = 1
    /\ wpc[1] = "wait"
    /\ ~hFailed

C13_CallOnlyWhileRequested ==
    \A w \in Threads : wpc[w] = "await" => state_requested

\* caller c leaves the wait of line 89 by its timeout in this step
TimeoutStep(c) == cpc[c] = "wait" /\ cpc'[c] = "read" /\ ~state_ready

\* C14: a wait that times out changes neither request pending, nor any
\* worker's position, nor the call in flight, nor the slot, nor result
\* ready; and once the reply of a call that was in flight when its caller
\* returned has been processed, the worker has stored the decoded value,
\* cleared request pending and set result ready.
C14_TimeoutLeavesWorker ==
    /\ [][\A c \in Callers :
            TimeoutStep(c) =>
                UNCHANGED <<state_requested, wpc, hTrkCall, state,
                            state_ready, dbus_thread>>]_vars
    /\ [](\A w \in Threads :
            (/\ hTrkEnded = "timeout"
             /\ \E c \in Callers : cret[c].read = "flying"
             /\ hTrkOut = "ok"
             /\ wpc[w] = "wait")
                => (state = hTrkVal /\ ~state_requested /\ state_ready))

\* C14 happens: the call timed out and returned UNKNOWN while its remote
\* call was in flight; the reply then arrived and the worker stored FULL,
\* cleared request pending and set result ready
C14_Witness ==
    /\ hTrkEnded = "timeout"
    /\ cret[1].read = "flying"
    /\ cret[1].got = UNKNOWN
    /\ hTrkOut = "ok"
    /\ hTrkVal = 4
    /\ state = FULL
    /\ ~state_requested
    /\ state_ready
    /\ \E w \in Threads : wpc[w] = "wait"

\* C15: only the worker writes the slot: every step of a calling thread
\* (entering get_state, any line of get_state, the classification of
\* is_network_connected and is_internet_connected) leaves the slot
\* unchanged, and every change of the slot is a step of a worker at line
\* 130 or line 141.
C15_OnlyWorkerWritesSlot ==
    [][/\ cpc' # cpc => state' = state
       /\ state' # state =>
             \E w \in Threads :
                 wpc[w] \in {"reset", "await"} /\ wpc'[w] # wpc[w]]_vars

\* C15 happens: a second call, made through is_network_connected, ran
\* get_state to its end while the slot held LIMITED, and the slot still
\* holds it
C15_Witness ==
    /\ hCalls = 2
    /\ cpc[1] = "returned"
    /\ cret[1].op = "is_network_connected"
    /\ cret[1].got = LIMITED
    /\ state = LIMITED

\* C16 as stated: every change of request pending, set or clear, is a step
\* of get_state and never of a worker; every change of result ready, set or
\* clear, is a step of a worker and never of get_state.
C16_SoleWriters ==
    [][/\ state_requested' # state_requested => (cpc' # cpc /\ wpc' = wpc)
       /\ state_ready' # state_ready => (wpc' # wpc /\ cpc' = cpc)]_vars

\* C16 amended: request pending is set only by get_state (line 88) and
\* cleared only by a worker (line 144); result ready is set only by a
\* worker (line 145) and cleared only by get_state (line 87).
C16_SetAndClearSides ==
    [][/\ (~state_requested /\ state_requested') =>
             /\ \E c \in Callers :
                    cpc[c] = "set_requested" /\ cpc'[c] = "wait"
             /\ wpc' = wpc
       /\ (state_requested /\ ~state_requested') =>
             /\ \E w \in Threads : wpc[w] = "clear" /\ wpc'[w] = "set"
             /\ cpc' = cpc
       /\ (~state_ready /\ state_ready') =>
             /\ \E w \in Threads : wpc[w] = "set" /\ wpc'[w] = "wait"
             /\ cpc' = cpc
       /\ (state_ready /\ ~state_ready') =>
             /\ \E c \in Callers :
                    cpc[c] = "clear_ready" /\ cpc'[c] = "set_requested"
             /\ wpc' = wpc]_vars

\* C16 happens: the first call was released by result ready, so a worker
\* had cleared request pending and set result ready; the second call has
\* since cleared result ready and set request pending
C16_Witness ==
    /\ hTrk = 1
    /\ hTrkEnded = "ready"
    /\ cinv[1] = 2
    /\ cpc[1] = "wait"
    /\ ~state_ready
    /\ state_requested

\* caller c has returned from invocation hTrk, which started while the
\* remote call of an earlier request was in flight, was released by result
\* ready, and read the slot before any remote call had been sent for its
\* own request
TrkCoalesced(c) ==
    /\ cret[c].flight
    /\ hTrkEnded = "ready"
    /\ cret[c].read = "untaken"

\* C17: coalescing.  A call that starts while the remote call of an
\* earlier request is in flight, and that is released by result ready and
\* reads the slot before any remote call is sent for it, returns what the
\* worker stored for the reply that was in flight, not the UNKNOWN of a
\* reset; C17_Witness is the execution the claim says exists.
C17_CoalescedReadsInFlightReply ==
    \A c \in Callers :
        TrkCoalesced(c) =>
            (~cret[c].reset /\ cret[c].got \in ConnectivityState)

\* C17 happens: the first call timed out with its remote call in flight;
\* the second call started meanwhile, was released by result ready and
\* returned the FULL decoded from that reply; no remote call has been sent
\* for the second call, and with request pending clear and the worker
\* waiting none will be
C17_Witness ==
    /\ hTrk = 2
    /\ hCalls = 2
    /\ TrkCoalesced(1)
    /\ cret[1].got = FULL
    /\ TrkPhase = "untaken"
    /\ ~state_requested
    /\ \E w \in Threads : wpc[w] = "wait" /\ dbus_thread = w

\* C18: for a single sequential caller, a call whose wait is ended by
\* result ready returns a value the worker stored for a completed reply,
\* never the UNKNOWN that the worker's reset wrote for a later request.
C18_ReadyMeansStored ==
    \A c \in Callers : hTrkEnded = "ready" => ~cret[c].reset

\* C20: for a single sequential caller the number of CheckConnectivity
\* calls sent never exceeds the number of get_state invocations started.
C20_CallsWithinInvocations == hIssued <= hCalls

\* C19: no lost wakeup.  For a single sequential caller no state is
\* reachable in which the caller is blocked at line 89, a live worker is
\* blocked at line 129 and both signals are clear; so a caller blocked at
\* line 89 is eventually released, without any use of the timeout, unless
\* no live worker is left.
C19_NoLostWakeup ==
    /\ [](\A c \in Callers, w \in Threads :
            ~(/\ cpc[c] = "wait"
              /\ wpc[w] = "wait"
              /\ ~state_requested
              /\ ~state_ready))
    /\ \A c \in Callers :
          cpc[c] = "wait" ~> (cpc[c] = "read" \/ LiveThreads = {})

\* C19 happens: after an earlier call, the caller is blocked at line 89 and
\* the worker is blocked at line 129 with request pending clear; result
\* ready is set, so the caller will be released
C19_Witness ==
    /\ cinv[1] = 2
    /\ cpc[1] = "wait"
    /\ \E w \in Threads : wpc[w] = "wait" /\ dbus_thread = w
    /\ ~state_requested
    /\ state_ready

====
